---- MODULE Spec2Model ----
(***************************************************************************)
(* Model of package metriclint (src/pkg/metriclint): the lint rules that   *)
(* LintCounter, LintGauge, LintHistogram, LintSummary and their Vector     *)
(* variants apply to a metric's options and label names.                   *)
(*                                                                         *)
(* A Go string is modelled as a sequence of one-character strings, so that *)
(* suffix, substring, split and case tests are computed on characters.     *)
(* An issue message is a string; Str turns a character sequence into one.  *)
(*                                                                         *)
(* Go leaves the iteration order of a map unspecified.  A function whose   *)
(* result depends on that order is modelled by the set of all results it   *)
(* can return; a function that does not is modelled by its one result.     *)
(***************************************************************************)
EXTENDS Integers, Sequences, FiniteSets, TLC

(***************************************************************************)
(* Bounds of the model.                                                    *)
(***************************************************************************)
\* the most "_"-separated segments drawn for a metric name
MaxSegs == 2

\* the most dynamic label names passed to a Vector entry point
MaxLabels == 2

(***************************************************************************)
(* Strings: the operations of Go's strings package the linter uses.        *)
(***************************************************************************)
lowerLetters ==
    <<"a","b","c","d","e","f","g","h","i","j","k","l","m",
      "n","o","p","q","r","s","t","u","v","w","x","y","z">>

upperLetters ==
    <<"A","B","C","D","E","F","G","H","I","J","K","L","M",
      "N","O","P","Q","R","S","T","U","V","W","X","Y","Z">>

lowerSet == {lowerLetters[i] : i \in 1..Len(lowerLetters)}

\* the lowercase letter of every uppercase letter
lowerOf == [c \in {upperLetters[i] : i \in 1..Len(upperLetters)} |->
               lowerLetters[CHOOSE i \in 1..Len(upperLetters) : upperLetters[i] = c]]

IsLower(c) == c \in lowerSet

IsUpper(c) == c \in DOMAIN lowerOf

LowerChar(c) == IF IsUpper(c) THEN lowerOf[c] ELSE c

\* strings.ToLower
ToLower(s) == [i \in 1..Len(s) |-> LowerChar(s[i])]

\* strings.HasSuffix
HasSuffix(s, suffix) ==
    /\ Len(s) >= Len(suffix)
    /\ SubSeq(s, Len(s) - Len(suffix) + 1, Len(s)) = suffix

\* strings.Contains: substr occurs at some place of s (the empty string at
\* every place); a place is looked at only if the first character is there
Contains(s, substr) ==
    \/ Len(substr) = 0
    \/ \E i \in 1..(Len(s) - Len(substr) + 1) :
        /\ s[i] = substr[1]
        /\ SubSeq(s, i, i + Len(substr) - 1) = substr

\* strings.Split(s, sep) for a one-character separator: the pieces between
\* the separators, empty pieces included; a string without sep is one piece.
RECURSIVE Split(_, _)
Split(s, sep) ==
    IF \A i \in 1..Len(s) : s[i] # sep
    THEN <<s>>
    ELSE LET i == CHOOSE k \in 1..Len(s) :
                      /\ s[k] = sep
                      /\ \A j \in 1..(k - 1) : s[j] # sep
         IN  <<SubSeq(s, 1, i - 1)>> \o Split(SubSeq(s, i + 1, Len(s)), sep)

\* strings.Join on character sequences
RECURSIVE Join(_, _)
Join(elems, sep) ==
    IF Len(elems) = 0 THEN <<>>
    ELSE IF Len(elems) = 1 THEN elems[1]
    ELSE elems[1] \o sep \o Join(Tail(elems), sep)

\* the string a character sequence spells
RECURSIVE Str(_)
Str(s) == IF Len(s) = 0 THEN "" ELSE Head(s) \o Str(Tail(s))

\* strings.Join on strings, as LintResult.String uses it
RECURSIVE JoinStr(_, _)
JoinStr(elems, sep) ==
    IF Len(elems) = 0 THEN ""
    ELSE IF Len(elems) = 1 THEN elems[1]
    ELSE elems[1] \o sep \o JoinStr(Tail(elems), sep)

\* fmt's %q of a string without special characters: the string in double quotes
Quote(s) == "\"" \o Str(s) \o "\""

\* regexp `[a-z][A-Z]`: FindString(s) != "" iff a lowercase letter is
\* immediately followed by an uppercase letter somewhere in s
camelCase(s) == \E i \in 1..(Len(s) - 1) : IsLower(s[i]) /\ IsUpper(s[i + 1])

\* BuildFQName as it would be if it joined the three without leaving the
\* empty ones out
BuildFQNameKeepingEmpty(namespace, subsystem, name) ==
    IF name = <<>> THEN <<>>
    ELSE Join(<<namespace, subsystem, name>>, <<"_">>)

\* prometheus.BuildFQName: "" for an empty name, else the non-empty ones of
\* namespace, subsystem and name joined by "_"
BuildFQName(namespace, subsystem, name) ==
    IF name = <<>> THEN <<>>
    ELSE IF namespace # <<>> /\ subsystem # <<>>
         THEN Join(<<namespace, subsystem, name>>, <<"_">>)
    ELSE IF namespace # <<>> THEN Join(<<namespace, name>>, <<"_">>)
    ELSE IF subsystem # <<>> THEN Join(<<subsystem, name>>, <<"_">>)
    ELSE name

(***************************************************************************)
(* The tables of common.go.                                                *)
(***************************************************************************)
\* map a unit to the appropriate base unit
units ==
    (<<"a","m","p","e","r","e","s">> :> <<"a","m","p","e","r","e","s">>)
    @@ (<<"b","y","t","e","s">> :> <<"b","y","t","e","s">>)
    @@ (<<"c","e","l","s","i","u","s">> :> <<"c","e","l","s","i","u","s">>)
    @@ (<<"g","r","a","m","s">> :> <<"g","r","a","m","s">>)
    @@ (<<"j","o","u","l","e","s">> :> <<"j","o","u","l","e","s">>)
    @@ (<<"m","e","t","e","r","s">> :> <<"m","e","t","e","r","s">>)
    @@ (<<"m","e","t","r","e","s">> :> <<"m","e","t","r","e","s">>)
    @@ (<<"s","e","c","o","n","d","s">> :> <<"s","e","c","o","n","d","s">>)
    @@ (<<"v","o","l","t","s">> :> <<"v","o","l","t","s">>)
    @@ (<<"m","i","n","u","t","e","s">> :> <<"s","e","c","o","n","d","s">>)
    @@ (<<"h","o","u","r","s">> :> <<"s","e","c","o","n","d","s">>)
    @@ (<<"d","a","y","s">> :> <<"s","e","c","o","n","d","s">>)
    @@ (<<"w","e","e","k","s">> :> <<"s","e","c","o","n","d","s">>)
    @@ (<<"k","e","l","v","i","n">> :> <<"c","e","l","s","i","u","s">>)
    @@ (<<"k","e","l","v","i","n","s">> :> <<"c","e","l","s","i","u","s">>)
    @@ (<<"f","a","h","r","e","n","h","e","i","t">> :> <<"c","e","l","s","i","u","s">>)
    @@ (<<"r","a","n","k","i","n","e">> :> <<"c","e","l","s","i","u","s">>)
    @@ (<<"i","n","c","h","e","s">> :> <<"m","e","t","e","r","s">>)
    @@ (<<"y","a","r","d","s">> :> <<"m","e","t","e","r","s">>)
    @@ (<<"m","i","l","e","s">> :> <<"m","e","t","e","r","s">>)
    @@ (<<"b","i","t","s">> :> <<"b","y","t","e","s">>)
    @@ (<<"c","a","l","o","r","i","e","s">> :> <<"j","o","u","l","e","s">>)
    @@ (<<"p","o","u","n","d","s">> :> <<"g","r","a","m","s">>)
    @@ (<<"o","u","n","c","e","s">> :> <<"g","r","a","m","s">>)

unitPrefixes ==
    << <<"p","i","c","o">>,
       <<"n","a","n","o">>,
       <<"m","i","c","r","o">>,
       <<"m","i","l","l","i">>,
       <<"c","e","n","t","i">>,
       <<"d","e","c","i">>,
       <<"d","e","c","a">>,
       <<"h","e","c","t","o">>,
       <<"k","i","l","o">>,
       <<"k","i","b","i">>,
       <<"m","e","g","a">>,
       <<"m","i","b","i">>,
       <<"g","i","g","a">>,
       <<"g","i","b","i">>,
       <<"t","e","r","a">>,
       <<"t","e","b","i">>,
       <<"p","e","t","a">>,
       <<"p","e","b","i">> >>

\* Common abbreviations that we'd like to discourage.
unitAbbreviations ==
    << <<"s">>,
       <<"m","s">>,
       <<"u","s">>,
       <<"n","s">>,
       <<"s","e","c">>,
       <<"b">>,
       <<"k","b">>,
       <<"m","b">>,
       <<"g","b">>,
       <<"t","b">>,
       <<"p","b">>,
       <<"m">>,
       <<"h">>,
       <<"d">> >>

\* dto.MetricType_name: the metric type names by number
MetricType_name ==
    (0 :> <<"C","O","U","N","T","E","R">>)
    @@ (1 :> <<"G","A","U","G","E">>)
    @@ (2 :> <<"S","U","M","M","A","R","Y">>)
    @@ (3 :> <<"U","N","T","Y","P","E","D">>)
    @@ (4 :> <<"H","I","S","T","O","G","R","A","M">>)

\* dto.MetricType_UNTYPED
MetricType_UNTYPED == 3

NameSuffixSum == <<"_","s","u","m">>

LabelLe == <<"l","e">>

LabelQuantile == <<"q","u","a","n","t","i","l","e">>

LintErrMsgNoHelp == "no help text"

(***************************************************************************)
(* Iteration helpers.                                                      *)
(***************************************************************************)
\* the orders in which a range over a map can visit the keys in S
Orders(S) ==
    {f \in [1..Cardinality(S) -> S] :
        \A i, j \in 1..Cardinality(S) : i # j => f[i] # f[j]}

\* n copies of one issue
Repeat(issue, n) == [i \in 1..n |-> issue]

\* `for ln := range constLabels { if ... { append issue } }` with hits the
\* keys that pass the test: the keys of a map are distinct and every hit
\* appends the same text, so the order of the visit does not show
RangeMap(hits, issue) == Repeat(issue, Cardinality(hits))

\* `for _, ln := range labelNames { if ... { append issue } }` with hits the
\* elements that pass the test, in their order
RangeSlice(hits, issue) == Repeat(issue, Len(hits))

(***************************************************************************)
(* The lint rules of common.go and counter.go.                             *)
(***************************************************************************)
\* lintHelp as it would be if the help text were trimmed before the test
lintHelpTrimmed(help) ==
    IF \A i \in 1..Len(help) : help[i] = " " THEN <<LintErrMsgNoHelp>> ELSE <<>>

lintHelp(help) ==
    IF Len(help) = 0 THEN <<LintErrMsgNoHelp>> ELSE <<>>

hasTotalSuffix(name) == HasSuffix(name, <<"_","t","o","t","a","l">>)

\* lintCounterContainsTotal as it would be with "total" for "_total"
lintCounterContainsTotalNoUnderscore(name) ==
    IF ~HasSuffix(name, <<"t","o","t","a","l">>)
    THEN <<"counter metrics should have \"_total\" suffix">>
    ELSE <<>>

lintCounterContainsTotal(name) ==
    IF ~hasTotalSuffix(name)
    THEN <<"counter metrics should have \"_total\" suffix">>
    ELSE <<>>

lintNonCounterNoTotal(name) ==
    IF hasTotalSuffix(name)
    THEN <<"counter metrics should not have \"_total\" suffix">>
    ELSE <<>>

\* append(unitPrefixes, ""): the prefixes in the order they are tried
prefixes == Append(unitPrefixes, <<>>)

\* p+unit for every unit and every prefix, by unit and by place of the prefix
prefixedUnit ==
    [unit \in DOMAIN units |-> [i \in 1..Len(prefixes) |-> prefixes[i] \o unit]]

\* the strings p+unit of one unit
prefixedUnits ==
    [unit \in DOMAIN units |-> {prefixedUnit[unit][i] : i \in 1..Len(prefixes)}]

\* the strings p+unit of all units
allPrefixedUnits == UNION {prefixedUnits[unit] : unit \in DOMAIN units}

\* `return "", "", false`
NotFound == [unit |-> <<>>, base |-> <<>>, ok |-> FALSE]

\* getMetricUnit as it would be if it matched a segment that ends with p+unit
getMetricUnitBySuffix(m) ==
    LET ss == Split(m, "_")
        hits == {h \in (DOMAIN units) \X (1..Len(prefixes)) :
                    \E k \in 1..Len(ss) : HasSuffix(ss[k], prefixedUnit[h[1]][h[2]])}
    IN  IF hits = {} THEN {NotFound}
        ELSE {[unit |-> prefixedUnit[h[1]][h[2]], base |-> units[h[1]], ok |-> TRUE] :
                h \in hits}

\* The results getMetricUnit(m) can return.  The outer loop ranges over the
\* map units, so any key can be visited before any other; for the key being
\* visited the prefixes are tried in the order of append(unitPrefixes, "")
\* and the segments from left to right, and the first s == p+unit returns.
\* Which segment matched does not show in the result.
getMetricUnit(m) ==
    LET ss == Split(m, "_")
        Match(i, unit) == \E k \in 1..Len(ss) : ss[k] = prefixedUnit[unit][i]
        Matches(unit) == \E k \in 1..Len(ss) : ss[k] \in prefixedUnits[unit]
        First(unit) ==
            LET matching == {i \in 1..Len(prefixes) : Match(i, unit)}
            IN  CHOOSE i \in matching : \A j \in matching : i <= j
        found ==
            IF \A k \in 1..Len(ss) : ss[k] \notin allPrefixedUnits
            THEN {}
            ELSE {unit \in DOMAIN units : Matches(unit)}
    IN  IF found = {}
        THEN {[unit |-> <<>>, base |-> <<>>, ok |-> FALSE]}
        ELSE {[unit |-> prefixedUnit[unit][First(unit)],
               base |-> units[unit],
               ok   |-> TRUE] : unit \in found}

\* lintMetricUnit as it would be without the test `unit == base`
lintMetricUnitWithoutBaseTest(name) ==
    {IF ~r.ok THEN <<>>
     ELSE <<"use base unit " \o Quote(r.base) \o " instead of " \o Quote(r.unit)>> :
        r \in getMetricUnit(name)}

\* the issue lists lintMetricUnit(name) can return
lintMetricUnit(name) ==
    {IF ~r.ok THEN <<>>
     ELSE IF r.unit = r.base THEN <<>>
     ELSE <<"use base unit " \o Quote(r.base) \o " instead of " \o Quote(r.unit)>> :
        r \in getMetricUnit(name)}

hasBucketSuffix(name) == HasSuffix(name, <<"_","b","u","c","k","e","t">>)

lintNonHistogramNoBucket(name) ==
    IF hasBucketSuffix(name)
    THEN <<"non-histogram metrics should not have \"_bucket\" suffix">>
    ELSE <<>>

hasCountSuffix(name) == HasSuffix(name, <<"_","c","o","u","n","t">>)

lintNonHistogramSummaryNoCount(name) ==
    IF hasCountSuffix(name)
    THEN <<"non-histogram and non-summary metrics should not have \"_count\" suffix">>
    ELSE <<>>

lintNonHistogramSummaryNoSum(name) ==
    IF HasSuffix(name, NameSuffixSum)
    THEN <<"non-histogram and non-summary metrics should not have \"_sum\" suffix">>
    ELSE <<>>

lintNonHistogramNoLabelLe(constLabels, labelNames) ==
    LET issue == "non-histogram metrics should not have \"le\" label"
        Hit(ln) == ln = LabelLe
    IN  RangeMap({ln \in DOMAIN constLabels : Hit(ln)}, issue)
            \o RangeSlice(SelectSeq(labelNames, Hit), issue)

\* only the constant labels are visited: labelNames is not read
lintNonSummaryNoLabelQuantile(constLabels, labelNames) ==
    LET issue == "non-summary metrics should not have \"quantile\" label"
        Hit(ln) == ln = LabelQuantile
    IN  RangeMap({ln \in DOMAIN constLabels : Hit(ln)}, issue)

\* The issue lists lintNoMetricTypeInName(name) can return: the loop ranges
\* over the map dto.MetricType_name, so the issues of the type names found
\* come in any order.
lintNoMetricTypeInName(name) ==
    LET n == ToLower(name)
        typename(i) == ToLower(MetricType_name[i])
        Hit(i) ==
            /\ i # MetricType_UNTYPED
            /\ \/ Contains(n, <<"_">> \o typename(i) \o <<"_">>)
               \/ HasSuffix(n, <<"_">> \o typename(i))
        found == {i \in DOMAIN MetricType_name : Hit(i)}
    IN  {[k \in 1..Cardinality(found) |->
            "metric name should not include type '" \o Str(typename(ord[k])) \o "'"] :
         ord \in Orders(found)}

lintReservedChars(name) ==
    IF Contains(name, <<":">>)
    THEN <<"metric names should not contain ':'">>
    ELSE <<>>

lintNameCamelCase(name) ==
    IF camelCase(name)
    THEN <<"metric names should be written in 'snake_case' not 'camelCase'">>
    ELSE <<>>

lintLabelNameCamelCase(constLabels, labelNames) ==
    LET issue == "label names should be written in 'snake_case' not 'camelCase'"
    IN  RangeMap({ln \in DOMAIN constLabels : camelCase(ln)}, issue)
            \o RangeSlice(SelectSeq(labelNames, camelCase), issue)

\* lintUnitAbbreviations as it would be if it stopped at the first
\* abbreviation found
lintUnitAbbreviationsOnce(name) ==
    LET n == ToLower(name)
        Hit(s) ==
            \/ Contains(n, <<"_">> \o s \o <<"_">>)
            \/ HasSuffix(n, <<"_">> \o s)
    IN  IF SelectSeq(unitAbbreviations, Hit) = <<>> THEN <<>>
        ELSE <<"metric names should not contain abbreviated units">>

\* one issue for every abbreviation of the table that is found
lintUnitAbbreviations(name) ==
    LET n == ToLower(name)
        Hit(s) ==
            \/ Contains(n, <<"_">> \o s \o <<"_">>)
            \/ HasSuffix(n, <<"_">> \o s)
    IN  RangeSlice(SelectSeq(unitAbbreviations, Hit),
                   "metric names should not contain abbreviated units")

(***************************************************************************)
(* commonLint and the entry points of metriclint.go.                       *)
(***************************************************************************)
\* what a call of commonLint comes to: it returns issues, or it panics
Returned(issues) == [panicked |-> FALSE, issues |-> issues]

Panic == [panicked |-> TRUE, issues |-> <<>>]

\* commonLint as it would be if the default case returned the empty list
\* instead of panicking
commonLintDefaultReturns(optsType, opts) ==
    CASE optsType = "prometheus.Opts" ->
            LET fqName == BuildFQName(opts.Namespace, opts.Subsystem, opts.Name)
            IN  {Returned(lintHelp(opts.Help) \o u) : u \in lintMetricUnit(fqName)}
      [] optsType = "prometheus.CounterOpts" ->
            {Returned(t
                \o lintReservedChars(opts.Name)
                \o lintNameCamelCase(opts.Name)
                \o lintUnitAbbreviations(opts.Name)
                \o lintNonHistogramNoBucket(opts.Name)
                \o lintNonHistogramSummaryNoCount(opts.Name)
                \o lintNonHistogramSummaryNoSum(opts.Name)
                \o lintNonHistogramNoLabelLe(opts.ConstLabels, <<>>)
                \o lintNonSummaryNoLabelQuantile(opts.ConstLabels, <<>>)
                \o lintLabelNameCamelCase(opts.ConstLabels, <<>>)) :
             t \in lintNoMetricTypeInName(opts.Name)}
      [] optsType = "prometheus.GaugeOpts" ->
            {Returned(lintHelp(opts.Help)
                \o t
                \o lintReservedChars(opts.Name)
                \o u
                \o lintNameCamelCase(opts.Name)
                \o lintUnitAbbreviations(opts.Name)
                \o lintNonHistogramNoBucket(opts.Name)
                \o lintNonHistogramSummaryNoCount(opts.Name)
                \o lintNonHistogramSummaryNoSum(opts.Name)
                \o lintNonHistogramNoLabelLe(opts.ConstLabels, <<>>)
                \o lintNonSummaryNoLabelQuantile(opts.ConstLabels, <<>>)
                \o lintLabelNameCamelCase(opts.ConstLabels, <<>>)) :
             t \in lintNoMetricTypeInName(opts.Name),
             u \in lintMetricUnit(opts.Name)}
      [] optsType = "prometheus.HistogramOpts" ->
            LET fqName == BuildFQName(opts.Namespace, opts.Subsystem, opts.Name)
            IN  {Returned(lintHelp(opts.Help)
                    \o u
                    \o t
                    \o lintReservedChars(fqName)
                    \o lintNameCamelCase(fqName)
                    \o lintUnitAbbreviations(fqName)
                    \o lintNonSummaryNoLabelQuantile(opts.ConstLabels, <<>>)
                    \o lintLabelNameCamelCase(opts.ConstLabels, <<>>)) :
                 u \in lintMetricUnit(fqName),
                 t \in lintNoMetricTypeInName(fqName)}
      [] optsType = "prometheus.SummaryOpts" ->
            LET fqName == BuildFQName(opts.Namespace, opts.Subsystem, opts.Name)
            IN  {Returned(lintHelp(opts.Help)
                    \o u
                    \o t
                    \o lintReservedChars(fqName)
                    \o lintNonHistogramNoBucket(fqName)
                    \o lintNameCamelCase(fqName)
                    \o lintUnitAbbreviations(fqName)
                    \o lintNonHistogramNoLabelLe(opts.ConstLabels, <<>>)
                    \o lintLabelNameCamelCase(opts.ConstLabels, <<>>)) :
                 u \in lintMetricUnit(fqName),
                 t \in lintNoMetricTypeInName(fqName)}
      [] OTHER -> {Returned(<<>>)}

\* The outcomes of commonLint(opts).  optsType is the dynamic type of the
\* interface value: the type switch takes the first case that names it.
commonLint(optsType, opts) ==
    CASE optsType = "prometheus.Opts" ->
            LET fqName == BuildFQName(opts.Namespace, opts.Subsystem, opts.Name)
            IN  {Returned(lintHelp(opts.Help) \o u) : u \in lintMetricUnit(fqName)}
      [] optsType = "prometheus.CounterOpts" ->
            {Returned(t
                \o lintReservedChars(opts.Name)
                \o lintNameCamelCase(opts.Name)
                \o lintUnitAbbreviations(opts.Name)
                \o lintNonHistogramNoBucket(opts.Name)
                \o lintNonHistogramSummaryNoCount(opts.Name)
                \o lintNonHistogramSummaryNoSum(opts.Name)
                \o lintNonHistogramNoLabelLe(opts.ConstLabels, <<>>)
                \o lintNonSummaryNoLabelQuantile(opts.ConstLabels, <<>>)
                \o lintLabelNameCamelCase(opts.ConstLabels, <<>>)) :
             t \in lintNoMetricTypeInName(opts.Name)}
      [] optsType = "prometheus.GaugeOpts" ->
            {Returned(lintHelp(opts.Help)
                \o t
                \o lintReservedChars(opts.Name)
                \o u
                \o lintNameCamelCase(opts.Name)
                \o lintUnitAbbreviations(opts.Name)
                \o lintNonHistogramNoBucket(opts.Name)
                \o lintNonHistogramSummaryNoCount(opts.Name)
                \o lintNonHistogramSummaryNoSum(opts.Name)
                \o lintNonHistogramNoLabelLe(opts.ConstLabels, <<>>)
                \o lintNonSummaryNoLabelQuantile(opts.ConstLabels, <<>>)
                \o lintLabelNameCamelCase(opts.ConstLabels, <<>>)) :
             t \in lintNoMetricTypeInName(opts.Name),
             u \in lintMetricUnit(opts.Name)}
      [] optsType = "prometheus.HistogramOpts" ->
            LET fqName == BuildFQName(opts.Namespace, opts.Subsystem, opts.Name)
            IN  {Returned(lintHelp(opts.Help)
                    \o u
                    \o t
                    \o lintReservedChars(fqName)
                    \o lintNameCamelCase(fqName)
                    \o lintUnitAbbreviations(fqName)
                    \o lintNonSummaryNoLabelQuantile(opts.ConstLabels, <<>>)
                    \o lintLabelNameCamelCase(opts.ConstLabels, <<>>)) :
                 u \in lintMetricUnit(fqName),
                 t \in lintNoMetricTypeInName(fqName)}
      [] optsType = "prometheus.SummaryOpts" ->
            LET fqName == BuildFQName(opts.Namespace, opts.Subsystem, opts.Name)
            IN  {Returned(lintHelp(opts.Help)
                    \o u
                    \o t
                    \o lintReservedChars(fqName)
                    \o lintNonHistogramNoBucket(fqName)
                    \o lintNameCamelCase(fqName)
                    \o lintUnitAbbreviations(fqName)
                    \o lintNonHistogramNoLabelLe(opts.ConstLabels, <<>>)
                    \o lintLabelNameCamelCase(opts.ConstLabels, <<>>)) :
                 u \in lintMetricUnit(fqName),
                 t \in lintNoMetricTypeInName(fqName)}
      [] OTHER -> {Panic}

\* the entry points as they would be if LintSummary handed commonLint a
\* pointer to its options
ArgTypeWithPointer ==
    [LintCounter   |-> "prometheus.Opts",
     LintGauge     |-> "prometheus.Opts",
     LintHistogram |-> "prometheus.HistogramOpts",
     LintSummary   |-> "*prometheus.SummaryOpts"]

\* the dynamic type of the value each entry point hands to commonLint:
\* LintCounter and LintGauge convert their options to prometheus.Opts
ArgType ==
    [LintCounter   |-> "prometheus.Opts",
     LintGauge     |-> "prometheus.Opts",
     LintHistogram |-> "prometheus.HistogramOpts",
     LintSummary   |-> "prometheus.SummaryOpts"]

\* a LintResult, or the panic that left the entry point without one
LintResult(MetricName, Issues) ==
    [panicked |-> FALSE, MetricName |-> MetricName, Issues |-> Issues]

NoResult == [panicked |-> TRUE, MetricName |-> <<>>, Issues |-> <<>>]

\* the value of result before any entry point was called
NotCalled == LintResult(<<>>, <<>>)

\* String as it would be if it left the colon out when there is no issue
StringWithoutColon(lr) ==
    IF Len(lr.Issues) = 0 THEN Str(lr.MetricName)
    ELSE Str(lr.MetricName) \o ":" \o JoinStr(lr.Issues, ",")

\* func (lr *LintResult) String() string
String(lr) == Str(lr.MetricName) \o ":" \o JoinStr(lr.Issues, ",")

\* `result.Issues = append(result.Issues, issues...)` on every result in rs
AppendIssues(rs, issues) ==
    {IF r.panicked THEN r ELSE [r EXCEPT !.Issues = @ \o issues] : r \in rs}

\* The results each entry point can return.
LintCounter(counterOpts) ==
    LET MetricName == BuildFQName(counterOpts.Namespace, counterOpts.Subsystem,
                                  counterOpts.Name)
    IN  {IF c.panicked THEN NoResult
         ELSE LintResult(MetricName,
                         c.issues \o lintCounterContainsTotal(MetricName)) :
            c \in commonLint(ArgType.LintCounter, counterOpts)}

\* LintCounterVector as it would be if it reported every dynamic label name
\* that is not "le" instead of every one that is
LintCounterVectorLeInverted(counterOpts, labelNames) ==
    LET issues ==
            RangeSlice(SelectSeq(labelNames, LAMBDA ln : ln # LabelLe),
                       "non-histogram metrics should not have \"le\" label")
                \o lintNonSummaryNoLabelQuantile(<<>>, labelNames)
                \o lintLabelNameCamelCase(<<>>, labelNames)
    IN  AppendIssues(LintCounter(counterOpts), issues)

LintCounterVector(counterOpts, labelNames) ==
    LET issues ==
            lintNonHistogramNoLabelLe(<<>>, labelNames)
                \o lintNonSummaryNoLabelQuantile(<<>>, labelNames)
                \o lintLabelNameCamelCase(<<>>, labelNames)
    IN  AppendIssues(LintCounter(counterOpts), issues)

\* LintGauge as it would be with the suffix rule of LintCounter left in next
\* to its own
LintGaugeWithCounterRule(gaugeOpts) ==
    LET MetricName == BuildFQName(gaugeOpts.Namespace, gaugeOpts.Subsystem,
                                  gaugeOpts.Name)
    IN  {IF c.panicked THEN NoResult
         ELSE LintResult(MetricName,
                         c.issues \o lintCounterContainsTotal(MetricName)
                                  \o lintNonCounterNoTotal(MetricName)) :
            c \in commonLint(ArgType.LintGauge, gaugeOpts)}

LintGauge(gaugeOpts) ==
    LET MetricName == BuildFQName(gaugeOpts.Namespace, gaugeOpts.Subsystem,
                                  gaugeOpts.Name)
    IN  {IF c.panicked THEN NoResult
         ELSE LintResult(MetricName,
                         c.issues \o lintNonCounterNoTotal(MetricName)) :
            c \in commonLint(ArgType.LintGauge, gaugeOpts)}

LintGaugeVector(gaugeOpts, labelNames) ==
    LET issues ==
            lintNonHistogramNoLabelLe(<<>>, labelNames)
                \o lintNonSummaryNoLabelQuantile(<<>>, labelNames)
                \o lintLabelNameCamelCase(<<>>, labelNames)
    IN  AppendIssues(LintGauge(gaugeOpts), issues)

\* LintHistogram as it would be if it applied its suffix rule before
\* commonLint
LintHistogramTotalFirst(histogramOpts) ==
    LET MetricName == BuildFQName(histogramOpts.Namespace, histogramOpts.Subsystem,
                                  histogramOpts.Name)
    IN  {IF c.panicked THEN NoResult
         ELSE LintResult(MetricName,
                         lintNonCounterNoTotal(MetricName) \o c.issues) :
            c \in commonLint(ArgType.LintHistogram, histogramOpts)}

LintHistogram(histogramOpts) ==
    LET MetricName == BuildFQName(histogramOpts.Namespace, histogramOpts.Subsystem,
                                  histogramOpts.Name)
    IN  {IF c.panicked THEN NoResult
         ELSE LintResult(MetricName,
                         c.issues \o lintNonCounterNoTotal(MetricName)) :
            c \in commonLint(ArgType.LintHistogram, histogramOpts)}

\* LintHistogramVector as it would be with the three label rules of the
\* Counter and Gauge vectors
LintHistogramVectorWithLeRule(histogramOpts, labelNames) ==
    LET issues ==
            lintNonHistogramNoLabelLe(<<>>, labelNames)
                \o lintNonSummaryNoLabelQuantile(<<>>, labelNames)
                \o lintLabelNameCamelCase(<<>>, labelNames)
    IN  AppendIssues(LintHistogram(histogramOpts), issues)

LintHistogramVector(histogramOpts, labelNames) ==
    LET issues ==
            lintNonSummaryNoLabelQuantile(<<>>, labelNames)
                \o lintLabelNameCamelCase(<<>>, labelNames)
    IN  AppendIssues(LintHistogram(histogramOpts), issues)

\* LintSummary as it would be without the call of lintNonCounterNoTotal
LintSummaryWithoutTotalRule(summaryOpts) ==
    LET MetricName == BuildFQName(summaryOpts.Namespace, summaryOpts.Subsystem,
                                  summaryOpts.Name)
    IN  {IF c.panicked THEN NoResult ELSE LintResult(MetricName, c.issues) :
            c \in commonLint(ArgType.LintSummary, summaryOpts)}

LintSummary(summaryOpts) ==
    LET MetricName == BuildFQName(summaryOpts.Namespace, summaryOpts.Subsystem,
                                  summaryOpts.Name)
    IN  {IF c.panicked THEN NoResult
         ELSE LintResult(MetricName,
                         c.issues \o lintNonCounterNoTotal(MetricName)) :
            c \in commonLint(ArgType.LintSummary, summaryOpts)}

LintSummaryVector(summaryOpts, labelNames) ==
    LET issues ==
            lintNonHistogramNoLabelLe(<<>>, labelNames)
                \o lintLabelNameCamelCase(<<>>, labelNames)
    IN  AppendIssues(LintSummary(summaryOpts), issues)

(***************************************************************************)
(* The inputs the callers pass.  Three families of inputs are drawn: names *)
(* of every shape, every combination of namespace, subsystem, a short name *)
(* and a help text, and every combination of constant labels and dynamic   *)
(* label names.                                                            *)
(***************************************************************************)
\* the segments metric names are made of
Segments ==
    { <<"t","o","t","a","l">>,
      <<"b","u","c","k","e","t">>,
      <<"c","o","u","n","t">>,
      <<"s","u","m">>,
      <<"h","o","u","r","s">>,
      <<"s","e","c","o","n","d","s">>,
      <<"k","i","l","o","b","y","t","e","s">>,
      <<"t","h","e","r","m","o","m","e","t","e","r","s">>,
      <<"c","o","u","n","t","e","r">>,
      <<"g","a","u","g","e">>,
      <<"c","o","u","n","t","e","r","s">>,
      <<"m","s">>,
      <<"s">>,
      <<"t","e","s","T">>,
      <<":">> }

\* the names of up to MaxSegs segments, the empty name included
Names ==
    {Join(segs, <<"_">>) : segs \in UNION {[1..n -> Segments] : n \in 0..MaxSegs}}

\* no namespace, a plain one, one that is a unit
Namespaces == { <<>>, <<"a","p","p">>, <<"h","o","u","r","s">> }

\* no subsystem, a plain one, one that is a metric type
Subsystems == { <<>>, <<"s","u","b">>, <<"c","o","u","n","t","e","r">> }

HelpTexts == { <<>>, <<" ">>, <<"h","e","l","p">> }

\* the label names in use: the two reserved ones, a camelCase one, a plain one
LabelNames ==
    { LabelLe, LabelQuantile, <<"l","N","a","m","e">>, <<"x">> }

\* the constant-label maps: every label has the value "lvalue"
ConstLabelMaps ==
    {[ln \in S |-> <<"l","v","a","l","u","e">>] :
        S \in SUBSET (LabelNames \ { <<"x">> })}

\* the lists of up to MaxLabels dynamic label names
LabelNameLists == UNION {[1..n -> LabelNames] : n \in 0..MaxLabels}

\* a name of three segments, two of them abbreviations
LongNames == { <<"l","i","n","t","_","s","_","m","s">> }

\* names of every shape
NameInputs ==
    [Namespace : { <<>> }, Subsystem : { <<>> }, Name : Names \cup LongNames,
     Help : { <<"h","e","l","p">> }, ConstLabels : { <<>> }]

\* every combination of namespace, subsystem, a short name and a help text
QualifierInputs ==
    [Namespace : Namespaces, Subsystem : Subsystems,
     Name : Segments \cup { <<>> }, Help : HelpTexts, ConstLabels : { <<>> }]

\* every combination of constant labels, with and without help, on two names
LabelInputs ==
    [Namespace : { <<>> }, Subsystem : { <<>> },
     Name : { <<"h","o","u","r","s","_","t","o","t","a","l">>,
              <<"s","e","c","o","n","d","s","_","b","u","c","k","e","t">> },
     Help : { <<>>, <<"h","e","l","p">> }, ConstLabels : ConstLabelMaps]

\* options with nothing to report for a counter, for every list of dynamic
\* label names
PlainInputs ==
    [Namespace : { <<>> }, Subsystem : { <<>> },
     Name : { <<"s","e","c","o","n","d","s","_","t","o","t","a","l">> },
     Help : { <<"h","e","l","p">> }, ConstLabels : { <<>> }]

\* the few inputs on which every function of the package is called
PkgInputs ==
    [Namespace : { <<>> }, Subsystem : { <<>> },
     Name : { <<"h","o","u","r","s","_","t","o","t","a","l">>,
              <<"t","e","s","T","_",":">> },
     Help : { <<>>, <<"h","e","l","p">> },
     ConstLabels : { <<>>, [ln \in {LabelLe} |-> <<"l","v","a","l","u","e">>] }]

\* the words the names handed to getMetricUnit are made of: a base unit, a
\* unit that is not one, a unit with a prefix, a word that ends with a unit,
\* a unit with two prefixes, a prefix alone
UnitWords ==
    { <<"s","e","c","o","n","d","s">>,
      <<"h","o","u","r","s">>,
      <<"k","i","l","o","b","y","t","e","s">>,
      <<"t","h","e","r","m","o","m","e","t","e","r","s">>,
      <<"k","i","l","o","m","e","g","a","b","y","t","e","s">>,
      <<"k","i","l","o">> }

\* the two of them that are units of time
TimeWords == { <<"s","e","c","o","n","d","s">>, <<"h","o","u","r","s">> }

\* options whose name is one of these words, or two units of time
UnitInputs ==
    [Namespace : { <<>> }, Subsystem : { <<>> },
     Name : UnitWords \cup {a \o <<"_">> \o b : a \in TimeWords, b \in TimeWords},
     Help : { <<"h","e","l","p">> }, ConstLabels : { <<>> }]

PkgLabelNameLists == { <<>>, <<LabelLe, <<"l","N","a","m","e">> >> }

\* the types whose values are handed to commonLint: those its type switch
\* has a case for, and some it has none for
SupportedTypes ==
    {"prometheus.Opts", "prometheus.CounterOpts", "prometheus.GaugeOpts",
     "prometheus.HistogramOpts", "prometheus.SummaryOpts"}

UnsupportedTypes ==
    {"prometheus.UntypedOpts", "*prometheus.CounterOpts", "string"}

(***************************************************************************)
(* The package-level variables of common.go, as the memory all calls       *)
(* share.  A Go slice is a backing array and a length; its capacity is the *)
(* length of the array.  The words are kept as strings.                    *)
(***************************************************************************)
\* the slice a composite literal makes: the array has room for its elements
\* and no more
SliceOf(elems) == [array |-> elems, len |-> Len(elems)]

\* the elements of a slice
Elems(s) == SubSeq(s.array, 1, s.len)

\* the backing array of s after append(s, e) ran: with spare capacity the
\* element is written behind the last one, without any append copies the
\* elements to a new array and leaves this one alone
AppendArray(s, e) ==
    IF s.len < Len(s.array) THEN [s.array EXCEPT ![s.len + 1] = e] ELSE s.array

\* the variables as they would be if unitPrefixes were cut out of a longer
\* array of prefixes
InitialPkgVarsSliced ==
    [units |-> {<<Str(u), Str(units[u])>> : u \in DOMAIN units},
     unitPrefixes |->
        [array |-> [i \in 1..Len(unitPrefixes) |-> Str(unitPrefixes[i])] \o <<"quecto">>,
         len   |-> Len(unitPrefixes)],
     unitAbbreviations |->
        SliceOf([i \in 1..Len(unitAbbreviations) |-> Str(unitAbbreviations[i])])]

\* the variables as the declarations of common.go initialise them
InitialPkgVars ==
    [units |-> {<<Str(u), Str(units[u])>> : u \in DOMAIN units},
     unitPrefixes |->
        SliceOf([i \in 1..Len(unitPrefixes) |-> Str(unitPrefixes[i])]),
     unitAbbreviations |->
        SliceOf([i \in 1..Len(unitAbbreviations) |-> Str(unitAbbreviations[i])])]

\* getMetricUnit as it would leave the variables if it kept the list it
\* builds: unitPrefixes = append(unitPrefixes, "")
getMetricUnitVarsAssigned(pv) ==
    [pv EXCEPT !.unitPrefixes = SliceOf(Elems(@) \o <<"">>)]

\* the variables after getMetricUnit ran on them: it reads units, and
\* evaluates append(unitPrefixes, "") without assigning the list it gets
getMetricUnitVars(pv) ==
    [pv EXCEPT !.unitPrefixes.array = AppendArray(pv.unitPrefixes, "")]

\* the variables after commonLint ran on a value of type optsType: every
\* case but the one of prometheus.CounterOpts calls lintMetricUnit, which
\* calls getMetricUnit; lintUnitAbbreviations only reads its list
commonLintVars(optsType, pv) ==
    IF optsType \in {"prometheus.Opts", "prometheus.GaugeOpts",
                     "prometheus.HistogramOpts", "prometheus.SummaryOpts"}
    THEN getMetricUnitVars(pv)
    ELSE pv

(***************************************************************************)
(* The state: the caller's options and label names, the function that was  *)
(* called last, the dynamic type of the value that call handed to          *)
(* commonLint, what the call returned, and the string the last call of     *)
(* String returned.  After a direct call of commonLint, result holds its   *)
(* issue list under an empty MetricName.  found holds what the last direct *)
(* call of getMetricUnit returned, pkgVars the package-level variables.    *)
(***************************************************************************)
VARIABLES opts, labelNames, called, optsType, result, str, found, pkgVars,
          calls

vars ==
    <<opts, labelNames, called, optsType, result, str, found, pkgVars, calls>>

\* the goroutines that call the entry points at the same time as each other
Goroutines == {"g1", "g2"}

\* a goroutine that has not called: calls holds, for every goroutine, where
\* it is in its call (pc), the entry point, the options and label names it
\* passed, whether an access of it to the package variables raced with a
\* write of another goroutine, and what the call returned
NotCalling ==
    [pc |-> "idle", entry |-> "none", opts |-> <<>>, labelNames |-> <<>>,
     raced |-> FALSE, result |-> NotCalled]

NoCalls == [g \in Goroutines |-> NotCalling]

EntryPoints ==
    {"LintCounter", "LintCounterVector", "LintGauge", "LintGaugeVector",
     "LintHistogram", "LintHistogramVector", "LintSummary", "LintSummaryVector"}

Init ==
    /\ \/ opts \in NameInputs \cup QualifierInputs /\ labelNames = <<>>
       \/ opts \in LabelInputs \cup PlainInputs /\ labelNames \in LabelNameLists
    /\ called = "none"
    /\ optsType = "none"
    /\ result = NotCalled
    /\ str = ""
    /\ found = NotFound
    /\ pkgVars = InitialPkgVars
    /\ calls = NoCalls

\* the entry point hands commonLint a value of type argType and returns one
\* of the results it can return
Call(entry, argType, results) ==
    /\ \E r \in results : result' = r
    /\ called' = entry
    /\ optsType' = argType
    /\ pkgVars' = commonLintVars(argType, pkgVars)
    /\ UNCHANGED <<opts, labelNames, str, found, calls>>

CallLintCounter == Call("LintCounter", ArgType.LintCounter, LintCounter(opts))

CallLintCounterVector ==
    Call("LintCounterVector", ArgType.LintCounter,
         LintCounterVector(opts, labelNames))

CallLintGauge == Call("LintGauge", ArgType.LintGauge, LintGauge(opts))

CallLintGaugeVector ==
    Call("LintGaugeVector", ArgType.LintGauge, LintGaugeVector(opts, labelNames))

CallLintHistogram ==
    Call("LintHistogram", ArgType.LintHistogram, LintHistogram(opts))

CallLintHistogramVector ==
    Call("LintHistogramVector", ArgType.LintHistogram,
         LintHistogramVector(opts, labelNames))

CallLintSummary == Call("LintSummary", ArgType.LintSummary, LintSummary(opts))

CallLintSummaryVector ==
    Call("LintSummaryVector", ArgType.LintSummary,
         LintSummaryVector(opts, labelNames))

Next ==
    \/ CallLintCounter
    \/ CallLintCounterVector
    \/ CallLintGauge
    \/ CallLintGaugeVector
    \/ CallLintHistogram
    \/ CallLintHistogramVector
    \/ CallLintSummary
    \/ CallLintSummaryVector

Spec == Init /\ [][Next]_vars

(***************************************************************************)
(* The package from the inside: besides the entry points, a caller in the  *)
(* package calls commonLint with a value of any type, and String on the    *)
(* result it holds.                                                        *)
(***************************************************************************)
InitPkg ==
    /\ \/ opts \in PkgInputs /\ labelNames \in PkgLabelNameLists
       \/ opts \in UnitInputs /\ labelNames = <<>>
    /\ called = "none"
    /\ optsType = "none"
    /\ result = NotCalled
    /\ str = ""
    /\ found = NotFound
    /\ pkgVars = InitialPkgVars
    /\ calls = NoCalls

\* commonLint(opts) with opts holding a value of type t: it returns its
\* issue list, or it panics and returns nothing
CallCommonLint ==
    \E t \in SupportedTypes \cup UnsupportedTypes :
        /\ \E c \in commonLint(t, opts) :
              result' = IF c.panicked THEN NoResult ELSE LintResult(<<>>, c.issues)
        /\ called' = "commonLint"
        /\ optsType' = t
        /\ pkgVars' = commonLintVars(t, pkgVars)
        /\ UNCHANGED <<opts, labelNames, str, found, calls>>

\* lintResult.String() on the result of the last call that returned
CallString ==
    /\ ~result.panicked
    /\ str' = String(result)
    /\ called' = "String"
    /\ UNCHANGED <<opts, labelNames, optsType, result, found, pkgVars, calls>>

\* getMetricUnit(opts.Name): it returns one of the triples it can return
CallGetMetricUnit ==
    /\ \E r \in getMetricUnit(opts.Name) : found' = r
    /\ called' = "getMetricUnit"
    /\ pkgVars' = getMetricUnitVars(pkgVars)
    /\ UNCHANGED <<opts, labelNames, optsType, result, str, calls>>

NextPkg ==
    \/ Next
    \/ CallCommonLint
    \/ CallString
    \/ CallGetMetricUnit

SpecPkg == InitPkg /\ [][NextPkg]_vars

(***************************************************************************)
(* Concurrent callers: two goroutines call entry points with no            *)
(* coordination, on the caller's options and label names or on options of  *)
(* their own.  A call is three steps: the goroutine enters the entry       *)
(* point, commonLint runs on the package variables, the entry point        *)
(* returns.  Steps of different goroutines interleave freely.              *)
(***************************************************************************)
\* the options the caller shares between the goroutines
ConcInputs ==
    {o \in UnitInputs :
        o.Name \in {<<"h","o","u","r","s">>,
                    <<"s","e","c","o","n","d","s","_","h","o","u","r","s">>}}

\* options a goroutine has to itself
OwnOpts ==
    [Namespace |-> <<>>, Subsystem |-> <<>>,
     Name |-> <<"t","e","s","T","_",":">>, Help |-> <<>>,
     ConstLabels |-> [ln \in {LabelLe} |-> <<"l","v","a","l","u","e">>]]

InitConc ==
    /\ opts \in ConcInputs
    /\ labelNames \in PkgLabelNameLists
    /\ called = "none"
    /\ optsType = "none"
    /\ result = NotCalled
    /\ str = ""
    /\ found = NotFound
    /\ pkgVars = InitialPkgVars
    /\ calls = NoCalls

\* the results entry can return for the options o and the label names l
LintBy(entry, o, l) ==
    CASE entry = "LintCounter" -> LintCounter(o)
      [] entry = "LintCounterVector" -> LintCounterVector(o, l)
      [] entry = "LintGauge" -> LintGauge(o)
      [] entry = "LintGaugeVector" -> LintGaugeVector(o, l)
      [] entry = "LintHistogram" -> LintHistogram(o)
      [] entry = "LintHistogramVector" -> LintHistogramVector(o, l)
      [] entry = "LintSummary" -> LintSummary(o)
      [] entry = "LintSummaryVector" -> LintSummaryVector(o, l)

\* the type of the value entry hands to commonLint
ArgTypeBy(entry) ==
    CASE entry \in {"LintCounter", "LintCounterVector"} -> ArgType.LintCounter
      [] entry \in {"LintGauge", "LintGaugeVector"} -> ArgType.LintGauge
      [] entry \in {"LintHistogram", "LintHistogramVector"} -> ArgType.LintHistogram
      [] entry \in {"LintSummary", "LintSummaryVector"} -> ArgType.LintSummary

\* the goroutines that are inside a call
Running == {g \in Goroutines : calls[g].pc \in {"entered", "linted"}}

\* goroutine g calls an entry point, on the shared options or on its own
Enter(g) ==
    /\ calls[g].pc = "idle"
    /\ \E entry \in EntryPoints, shared \in BOOLEAN :
          calls' = [calls EXCEPT ![g] =
                       [pc |-> "entered", entry |-> entry,
                        opts |-> IF shared THEN opts ELSE OwnOpts,
                        labelNames |-> IF shared THEN labelNames ELSE <<>>,
                        raced |-> FALSE, result |-> NotCalled]]
    /\ UNCHANGED <<opts, labelNames, called, optsType, result, str, found, pkgVars>>

\* commonLint runs in goroutine g: it reads the package variables and
\* leaves them as commonLintVars says.  Nothing orders the accesses of
\* different goroutines, so a write that changes the variables is a data
\* race with every other call that is running, and for the writer too
RunCommonLint(g) ==
    /\ calls[g].pc = "entered"
    /\ pkgVars' = commonLintVars(ArgTypeBy(calls[g].entry), pkgVars)
    /\ calls' = [h \in Goroutines |->
                   IF h = g
                   THEN [calls[g] EXCEPT
                            !.pc = "linted",
                            !.raced = @ \/ (pkgVars' # pkgVars /\ Running # {g})]
                   ELSE [calls[h] EXCEPT
                            !.raced = @ \/ (pkgVars' # pkgVars /\ h \in Running)]]
    /\ UNCHANGED <<opts, labelNames, called, optsType, result, str, found>>

\* the entry point returns in goroutine g: one of the results it can return
\* for its arguments; after a data race the call may as well have crashed
Return(g) ==
    /\ calls[g].pc = "linted"
    /\ \E r \in LintBy(calls[g].entry, calls[g].opts, calls[g].labelNames)
                   \cup (IF calls[g].raced THEN {NoResult} ELSE {}) :
          calls' = [calls EXCEPT ![g].pc = "done", ![g].result = r]
    /\ UNCHANGED <<opts, labelNames, called, optsType, result, str, found, pkgVars>>

NextConc == \E g \in Goroutines : Enter(g) \/ RunCommonLint(g) \/ Return(g)

SpecConc == InitConc /\ [][NextConc]_vars

(***************************************************************************)
(* What the properties speak about.                                        *)
(***************************************************************************)
CounterCalls == {"LintCounter", "LintCounterVector"}

GaugeCalls == {"LintGauge", "LintGaugeVector"}

HistogramCalls == {"LintHistogram", "LintHistogramVector"}

SummaryCalls == {"LintSummary", "LintSummaryVector"}

VectorCalls ==
    {"LintCounterVector", "LintGaugeVector", "LintHistogramVector",
     "LintSummaryVector"}

\* the non-vector entry point of each vector entry point
NonVector ==
    [e \in VectorCalls |->
        CASE e = "LintCounterVector" -> "LintCounter"
          [] e = "LintGaugeVector" -> "LintGauge"
          [] e = "LintHistogramVector" -> "LintHistogram"
          [] e = "LintSummaryVector" -> "LintSummary"]

\* the fully-qualified name of the options that were passed
FQName == BuildFQName(opts.Namespace, opts.Subsystem, opts.Name)

\* how often an issue is in an issue list
CountIn(issues, issue) == Cardinality({i \in 1..Len(issues) : issues[i] = issue})

Count(issue) == CountIn(result.Issues, issue)

Has(issue) == \E i \in 1..Len(result.Issues) : result.Issues[i] = issue

\* a is the beginning of b
IsPrefix(a, b) == Len(a) <= Len(b) /\ SubSeq(b, 1, Len(a)) = a

\* the dynamic label names the entry point called last was given
PassedLabelNames == IF called \in VectorCalls THEN labelNames ELSE <<>>

IsPassed(ln) == \E i \in 1..Len(PassedLabelNames) : PassedLabelNames[i] = ln

IssueCounterTotal == "counter metrics should have \"_total\" suffix"

IssueNonCounterTotal == "counter metrics should not have \"_total\" suffix"

IssueBucket == "non-histogram metrics should not have \"_bucket\" suffix"

IssueCount ==
    "non-histogram and non-summary metrics should not have \"_count\" suffix"

IssueSum ==
    "non-histogram and non-summary metrics should not have \"_sum\" suffix"

IssueLe == "non-histogram metrics should not have \"le\" label"

IssueQuantile == "non-summary metrics should not have \"quantile\" label"

(***************************************************************************)
(* Properties.                                                             *)
(***************************************************************************)
\* C1: whichever of the eight entry points was called, its issue list holds
\* "no help text" exactly once if the help string has length 0 and not at
\* all otherwise; a help string of blanks only is not empty.
C1_HelpTextOnce ==
    called \in EntryPoints =>
        /\ ~result.panicked
        /\ Count(LintErrMsgNoHelp) = (IF Len(opts.Help) = 0 THEN 1 ELSE 0)

\* a vector entry point has linted options whose help text is one blank
C1_Witness ==
    /\ called = "LintSummaryVector"
    /\ opts.Help = <<" ">>
    /\ Count(LintErrMsgNoHelp) = 0

\* C2: the result of LintCounter and of LintCounterVector holds the issue
\* `counter metrics should have "_total" suffix` if and only if the
\* fully-qualified name does not end with "_total".
C2_CounterTotalSuffix ==
    called \in CounterCalls =>
        (Has(IssueCounterTotal) <=> ~HasSuffix(FQName, <<"_","t","o","t","a","l">>))

\* a counter named "total", which ends with "total" but not with "_total"
C2_Witness ==
    /\ called \in CounterCalls
    /\ FQName = <<"t","o","t","a","l">>
    /\ Has(IssueCounterTotal)

\* C3: the result of the Gauge, Histogram and Summary entry points, vector
\* or not, holds the should-not-have-"_total"-suffix issue if and only if
\* the fully-qualified name ends with "_total".
C3_NonCounterTotalSuffix ==
    called \in GaugeCalls \cup HistogramCalls \cup SummaryCalls =>
        (Has(IssueNonCounterTotal) <=> HasSuffix(FQName, <<"_","t","o","t","a","l">>))

\* a summary whose name ends with "_total" has the issue
C3_Witness ==
    /\ called \in SummaryCalls
    /\ HasSuffix(FQName, <<"_","t","o","t","a","l">>)
    /\ Has(IssueNonCounterTotal)

\* C4: for a Counter, Gauge or Summary whose fully-qualified name ends with
\* "_bucket", the result of the non-vector and of the vector entry point
\* holds `non-histogram metrics should not have "_bucket" suffix`.
C4_BucketSuffix ==
    /\ called \in CounterCalls \cup GaugeCalls \cup SummaryCalls
    /\ HasSuffix(FQName, <<"_","b","u","c","k","e","t">>)
    => Has(IssueBucket)

\* C5: for a Counter or Gauge, vector or not, a fully-qualified name ending
\* with "_count" yields the "_count" suffix issue and one ending with "_sum"
\* yields the "_sum" suffix issue.
C5_CountSumSuffix ==
    called \in CounterCalls \cup GaugeCalls =>
        /\ HasSuffix(FQName, <<"_","c","o","u","n","t">>) => Has(IssueCount)
        /\ HasSuffix(FQName, <<"_","s","u","m">>) => Has(IssueSum)

\* C6: for a Counter, Gauge or Summary, a label named "le" yields the issue
\* `non-histogram metrics should not have "le" label`, be it a constant label
\* of the options or a dynamic label name passed to the vector entry point.
C6_LeLabel ==
    called \in CounterCalls \cup GaugeCalls \cup SummaryCalls =>
        /\ LabelLe \in DOMAIN opts.ConstLabels => Has(IssueLe)
        /\ IsPassed(LabelLe) => Has(IssueLe)

\* C7: for a Counter, Gauge or Histogram, a label named "quantile" yields the
\* issue `non-summary metrics should not have "quantile" label`, be it a
\* constant label of the options or a dynamic label name passed to the
\* vector entry point.
C7_QuantileLabel ==
    called \in CounterCalls \cup GaugeCalls \cup HistogramCalls =>
        /\ LabelQuantile \in DOMAIN opts.ConstLabels => Has(IssueQuantile)
        /\ IsPassed(LabelQuantile) => Has(IssueQuantile)

\* C8: no result of LintHistogram or LintHistogramVector holds the "_bucket",
\* "_count" or "_sum" suffix issue or the "le" label issue, and no result of
\* LintSummary or LintSummaryVector holds the "_count" or "_sum" suffix issue
\* or the "quantile" label issue.
C8_KindExemptions ==
    /\ called \in HistogramCalls =>
        ~Has(IssueBucket) /\ ~Has(IssueCount) /\ ~Has(IssueSum) /\ ~Has(IssueLe)
    /\ called \in SummaryCalls =>
        ~Has(IssueCount) /\ ~Has(IssueSum) /\ ~Has(IssueQuantile)

\* a histogram vector named "..._bucket" with "le" both as a constant and as
\* a dynamic label has been linted
C8_Witness ==
    /\ called = "LintHistogramVector"
    /\ HasSuffix(FQName, <<"_","b","u","c","k","e","t">>)
    /\ LabelLe \in DOMAIN opts.ConstLabels
    /\ IsPassed(LabelLe)
    /\ ~result.panicked

\* C9: when LintKVector is called on the options LintK was just called on,
\* its result has the MetricName of LintK's result and its issue list begins
\* with the whole issue list of LintK's result; LintCounterVector with the
\* label names le, x holds the "le" label issue in addition.
C9_VectorExtends ==
    [][ /\ called' \in VectorCalls
        /\ called = NonVector[called']
        => /\ result'.MetricName = result.MetricName
           /\ IsPrefix(result.Issues, result'.Issues)
           /\ (called' = "LintCounterVector" /\ labelNames = <<LabelLe, <<"x">> >>)
                => CountIn(result'.Issues, IssueLe) > CountIn(result.Issues, IssueLe)
      ]_vars

\* C10: two invocations of the same entry point on the same options and
\* label names return the same result, issue for issue in the same order.
C10_Deterministic ==
    [][called' = called => result' = result]_vars

IssueReservedChars == "metric names should not contain ':'"

IssueNameCamelCase ==
    "metric names should be written in 'snake_case' not 'camelCase'"

IssueLabelCamelCase ==
    "label names should be written in 'snake_case' not 'camelCase'"

IssueAbbreviation == "metric names should not contain abbreviated units"

\* the words of the four metric kinds, and the word of the untyped kind
KindWords ==
    { <<"c","o","u","n","t","e","r">>, <<"g","a","u","g","e">>,
      <<"h","i","s","t","o","g","r","a","m">>, <<"s","u","m","m","a","r","y">> }

UntypedWord == <<"u","n","t","y","p","e","d">>

IssueType(word) == "metric name should not include type '" \o Str(word) \o "'"

\* the "_"-delimited tokens of the lowercased name: each is bounded by "_"
\* or by the start or the end of the name
Tokens(name) ==
    LET ss == Split(ToLower(name), "_") IN {ss[i] : i \in 1..Len(ss)}

\* the abbreviations of the table, as a set
Abbreviations == {unitAbbreviations[i] : i \in 1..Len(unitAbbreviations)}

\* C11: whichever entry point was called, the result holds the issue
\* `metric names should not contain ':'` if and only if the metric name
\* contains the character ":".
C11_ReservedChars ==
    called \in EntryPoints =>
        (Has(IssueReservedChars) <=> Contains(FQName, <<":">>))

\* C12: whichever entry point was called, the result holds the issue
\* `metric names should be written in 'snake_case' not 'camelCase'` if and
\* only if the name has a letter a-z immediately followed by a letter A-Z.
C12_NameCamelCase ==
    called \in EntryPoints =>
        (Has(IssueNameCamelCase) <=> camelCase(FQName))

\* C13: the number of `label names should be written in 'snake_case' not
\* 'camelCase'` entries of a result is the number of camelCase constant
\* label names plus, for a vector entry point, the number of camelCase
\* dynamic label names.
C13_LabelCamelCase ==
    called \in EntryPoints =>
        Count(IssueLabelCamelCase) =
            Cardinality({ln \in DOMAIN opts.ConstLabels : camelCase(ln)})
          + Cardinality({i \in 1..Len(PassedLabelNames) :
                            camelCase(PassedLabelNames[i])})

\* C14: whichever entry point was called, the result holds a `metric name
\* should not include type '<word>'` issue if and only if one of counter,
\* gauge, histogram, summary is a whole "_"-delimited token of the
\* lowercased name; the word untyped never raises the issue.
C14_MetricTypeInName ==
    called \in EntryPoints =>
        /\ (\E w \in KindWords : Has(IssueType(w)))
              <=> (Tokens(FQName) \cap KindWords # {})
        /\ ~Has(IssueType(UntypedWord))

\* C15: whichever entry point was called, the result holds the issue
\* `metric names should not contain abbreviated units` if and only if some
\* "_"-delimited token of the lowercased name is one of the abbreviations
\* s, ms, us, ns, sec, b, kb, mb, gb, tb, pb, m, h, d.
C15_UnitAbbreviations ==
    called \in EntryPoints =>
        (Has(IssueAbbreviation) <=> (Tokens(FQName) \cap Abbreviations # {}))

IssueBaseUnit(base, unit) ==
    "use base unit " \o Quote(base) \o " instead of " \o Quote(unit)

\* every issue the base-unit rule can raise
UnitIssues ==
    {IssueBaseUnit(units[u], pu) : u \in DOMAIN units, pu \in allPrefixedUnits}

\* the places of the segments of name that are a unit of the table, with or
\* without a prefix
UnitSegments(name) ==
    LET ss == Split(name, "_") IN {k \in 1..Len(ss) : ss[k] \in allPrefixedUnits}

\* the issues of the result that the base-unit rule raised
UnitIssuesOf(issues) == SelectSeq(issues, LAMBDA i : i \in UnitIssues)

\* C16: when exactly one segment of the fully-qualified name is a unit, the
\* result holds no unit issue if the segment is a base unit without prefix,
\* and otherwise exactly one issue `use base unit <base> instead of <unit>`
\* with <unit> the segment and <base> the base unit the table gives.
C16_BaseUnit ==
    (called \in EntryPoints /\ Cardinality(UnitSegments(FQName)) = 1) =>
        LET ss == Split(FQName, "_")
            s  == ss[CHOOSE k \in UnitSegments(FQName) : TRUE]
            bases == {units[u] : u \in {v \in DOMAIN units : s \in prefixedUnits[v]}}
        IN  IF s \in DOMAIN units /\ units[s] = s
            THEN UnitIssuesOf(result.Issues) = <<>>
            ELSE \E base \in bases :
                    /\ bases = {base}
                    /\ UnitIssuesOf(result.Issues) = <<IssueBaseUnit(base, s)>>

\* a counter whose only unit is its namespace "hours" is told to use seconds
C16_Witness ==
    /\ called \in CounterCalls
    /\ opts.Namespace = <<"h","o","u","r","s">>
    /\ opts.Name = <<"t","o","t","a","l">>
    /\ UnitIssuesOf(result.Issues) =
           <<"use base unit \"seconds\" instead of \"hours\"">>

\* the issues from the i-th on, each after a comma
RECURSIVE CommaBefore(_, _)
CommaBefore(issues, i) ==
    IF i > Len(issues) THEN ""
    ELSE "," \o issues[i] \o CommaBefore(issues, i + 1)

\* C17: String() returns the MetricName, then ":", then the issues in list
\* order with "," between them; for an empty issue list, the MetricName
\* followed by ":" and nothing after.
C17_String ==
    called = "String" =>
        str = IF result.Issues = <<>>
              THEN Str(result.MetricName) \o ":"
              ELSE Str(result.MetricName) \o ":" \o result.Issues[1]
                       \o CommaBefore(result.Issues, 2)

\* the string of a result with two issues
C17_Witness ==
    /\ called = "String"
    /\ Len(result.Issues) = 2
    /\ str = "hours_total:no help text,use base unit \"seconds\" instead of \"hours\""

\* the non-empty ones among namespace, subsystem and name, joined by "_"
JoinedNonEmpty ==
    Join(SelectSeq(<<opts.Namespace, opts.Subsystem, opts.Name>>,
                   LAMBDA part : part # <<>>),
         <<"_">>)

\* C18 as claimed: for every combination of empty and non-empty namespace,
\* subsystem and name, the MetricName of the result is the non-empty ones
\* joined by "_" in that order.
C18_MetricNameJoined ==
    called \in EntryPoints => result.MetricName = JoinedNonEmpty

\* C18 as amended: with a non-empty name, the MetricName of the result is
\* the non-empty ones among namespace, subsystem and name joined by "_" in
\* that order, with no "_" added in front or behind; with an empty name it
\* is the empty string, whatever the namespace and the subsystem are.
C18_MetricNameJoinedUnlessNameEmpty ==
    called \in EntryPoints =>
        result.MetricName = IF opts.Name = <<>> THEN <<>> ELSE JoinedNonEmpty

\* namespace and subsystem are set, the name is empty: the MetricName is too
C18_Witness ==
    /\ called \in EntryPoints
    /\ opts.Namespace = <<"a","p","p">>
    /\ opts.Subsystem = <<"s","u","b">>
    /\ opts.Name = <<>>
    /\ result.MetricName = <<>>

\* C19: commonLint called with a value of a type its switch has no case for
\* panics: it returns no issue list, empty or not.
C19_UnknownTypePanics ==
    (called = "commonLint" /\ optsType \notin SupportedTypes) =>
        result = NoResult

\* commonLint was handed a prometheus.UntypedOpts and panicked
C19_Witness ==
    /\ called = "commonLint"
    /\ optsType = "prometheus.UntypedOpts"
    /\ result.panicked

\* C20: each of the eight entry points hands commonLint a value its switch
\* has a case for and returns a LintResult, with or without issues.
C20_EntryPointsReturn ==
    called \in EntryPoints =>
        /\ optsType \in SupportedTypes
        /\ ~result.panicked

\* an entry point has returned a result that holds issues
C20_Witness ==
    /\ called = "LintGaugeVector"
    /\ optsType = "prometheus.Opts"
    /\ ~result.panicked
    /\ Len(result.Issues) >= 2

\* C21: a Counter, Gauge or Summary vector with "le" among its constant
\* labels and among its dynamic label names holds the le-label issue at
\* least twice, and a Counter, Gauge or Histogram vector with "quantile"
\* among both holds the quantile-label issue at least twice.
C21_DuplicatesKept ==
    /\ (/\ called \in {"LintCounterVector", "LintGaugeVector", "LintSummaryVector"}
        /\ LabelLe \in DOMAIN opts.ConstLabels
        /\ IsPassed(LabelLe))
          => Count(IssueLe) >= 2
    /\ (/\ called \in {"LintCounterVector", "LintGaugeVector", "LintHistogramVector"}
        /\ LabelQuantile \in DOMAIN opts.ConstLabels
        /\ IsPassed(LabelQuantile))
          => Count(IssueQuantile) >= 2

\* the text the tests give the should-not-have-"_total"-suffix issue
IssueNonCounterTotalOfTests == "non-counter metrics should not have \"_total\" suffix"

\* the result holds the should-not-have-"_total"-suffix issue, in the text
\* of the code or in the text of the tests
HasShouldNotHaveTotal == Has(IssueNonCounterTotal) \/ Has(IssueNonCounterTotalOfTests)

\* C22: no result holds both the should-have-"_total"-suffix issue and the
\* should-not-have one; a Counter result never holds the should-not-have
\* issue, a Gauge, Histogram or Summary result never the should-have issue.
C22_TotalRulesExclusive ==
    called \in EntryPoints =>
        /\ ~(Has(IssueCounterTotal) /\ HasShouldNotHaveTotal)
        /\ called \in CounterCalls => ~HasShouldNotHaveTotal
        /\ called \notin CounterCalls => ~Has(IssueCounterTotal)

\* a gauge named "..._total" has the should-not-have issue and not the other
C22_Witness ==
    /\ called \in GaugeCalls
    /\ HasSuffix(FQName, <<"_","t","o","t","a","l">>)
    /\ HasShouldNotHaveTotal
    /\ ~Has(IssueCounterTotal)

NoUpper(s) == \A i \in 1..Len(s) : ~IsUpper(s[i])

\* the name breaks none of the rules on names, the suffix rules aside: it is
\* all lowercase, has no ":", no kind word and no abbreviation as a token,
\* and every unit among its segments is a base unit without prefix
NameRulesKept(name) ==
    LET ss == Split(name, "_")
    IN  /\ NoUpper(name)
        /\ ~Contains(name, <<":">>)
        /\ Tokens(name) \cap KindWords = {}
        /\ Tokens(name) \cap Abbreviations = {}
        /\ \A k \in 1..Len(ss) :
              ss[k] \in allPrefixedUnits =>
                  ss[k] \in DOMAIN units /\ units[ss[k]] = ss[k]

EndsWithOneOf(name, words) == \E w \in words : HasSuffix(name, <<"_">> \o w)

\* the constant label names and the dynamic label names that were passed
\* are lowercase and neither "le" nor "quantile"
LabelRulesKept ==
    \A ln \in DOMAIN opts.ConstLabels
              \cup {PassedLabelNames[i] : i \in 1..Len(PassedLabelNames)} :
        NoUpper(ln) /\ ln \notin {LabelLe, LabelQuantile}

\* C23: for a Gauge, Histogram or Summary (vector or not) with non-empty
\* help whose only violation is a name that ends with "_total", String() is
\* `<name>:non-counter metrics should not have "_total" suffix`.
C23_NonCounterTotalString ==
    (/\ called \in GaugeCalls \cup HistogramCalls \cup SummaryCalls
     /\ opts.Help # <<>>
     /\ NameRulesKept(FQName)
     /\ HasSuffix(FQName, <<"_","t","o","t","a","l">>)
     /\ LabelRulesKept)
        => String(result) = Str(FQName) \o ":" \o IssueNonCounterTotalOfTests

\* C24: for each kind, options with non-empty help, a name that breaks none
\* of the name rules (with the "_total" suffix for a Counter and none of
\* "_total", "_bucket", "_count", "_sum" otherwise) and label names that
\* break none of the label rules yield an empty issue list from the
\* non-vector and from the vector entry point: String() is the name and ":".
C24_NoFalsePositives ==
    (/\ called \in EntryPoints
     /\ opts.Help # <<>>
     /\ NameRulesKept(FQName)
     /\ IF called \in CounterCalls
        THEN HasSuffix(FQName, <<"_","t","o","t","a","l">>)
        ELSE ~EndsWithOneOf(FQName, { <<"t","o","t","a","l">>,
                                      <<"b","u","c","k","e","t">>,
                                      <<"c","o","u","n","t">>, <<"s","u","m">> })
     /\ LabelRulesKept)
        => /\ result.Issues = <<>>
           /\ String(result) = Str(FQName) \o ":"

\* a counter vector was passed the label name "x" and has nothing to report
C24_Witness ==
    /\ called = "LintCounterVector"
    /\ FQName = <<"s","e","c","o","n","d","s","_","t","o","t","a","l">>
    /\ labelNames = << <<"x">> >>
    /\ opts.Help # <<>>
    /\ result.Issues = <<>>

\* the keys of the unit table in the order the table lists them
UnitTableOrder ==
    << <<"a","m","p","e","r","e","s">>,
       <<"b","y","t","e","s">>,
       <<"c","e","l","s","i","u","s">>,
       <<"g","r","a","m","s">>,
       <<"j","o","u","l","e","s">>,
       <<"m","e","t","e","r","s">>,
       <<"m","e","t","r","e","s">>,
       <<"s","e","c","o","n","d","s">>,
       <<"v","o","l","t","s">>,
       <<"m","i","n","u","t","e","s">>,
       <<"h","o","u","r","s">>,
       <<"d","a","y","s">>,
       <<"w","e","e","k","s">>,
       <<"k","e","l","v","i","n">>,
       <<"k","e","l","v","i","n","s">>,
       <<"f","a","h","r","e","n","h","e","i","t">>,
       <<"r","a","n","k","i","n","e">>,
       <<"i","n","c","h","e","s">>,
       <<"y","a","r","d","s">>,
       <<"m","i","l","e","s">>,
       <<"b","i","t","s">>,
       <<"c","a","l","o","r","i","e","s">>,
       <<"p","o","u","n","d","s">>,
       <<"o","u","n","c","e","s">> >>

\* the places <<u, p, k>> of unit u in the table, prefix p in the prefix
\* list (the empty prefix last) and segment k of the name at which the
\* segment is prefix + unit
MatchPlaces(name) ==
    LET ss == Split(name, "_")
    IN  {pl \in (1..Len(UnitTableOrder)) \X (1..Len(prefixes)) \X (1..Len(ss)) :
            ss[pl[3]] = prefixes[pl[2]] \o UnitTableOrder[pl[1]]}

\* a place comes before another: first by unit, then by prefix, then by segment
Before(a, b) ==
    \/ a[1] < b[1]
    \/ a[1] = b[1] /\ a[2] < b[2]
    \/ a[1] = b[1] /\ a[2] = b[2] /\ a[3] <= b[3]

\* C27: when the segments of a name match more than one (prefix, unit)
\* combination, getMetricUnit returns the one that comes first by unit in
\* table order, then by prefix in prefix-list order, then by segment from
\* the left: for a given name always the same (unit, base) pair.
C27_SearchOrder ==
    (called = "getMetricUnit" /\ MatchPlaces(opts.Name) # {}) =>
        LET first == CHOOSE a \in MatchPlaces(opts.Name) :
                        \A b \in MatchPlaces(opts.Name) : Before(a, b)
        IN  found = [unit |-> prefixes[first[2]] \o UnitTableOrder[first[1]],
                     base |-> units[UnitTableOrder[first[1]]],
                     ok   |-> TRUE]

\* a segment is a key of the unit table, with or without one prefix of the
\* prefix list in front
IsUnitSegment(s) ==
    \E u \in DOMAIN units :
        \/ s = u
        \/ \E i \in 1..Len(unitPrefixes) : s = unitPrefixes[i] \o u

HasUnitSegment(name) ==
    LET ss == Split(name, "_") IN \E k \in 1..Len(ss) : IsUnitSegment(ss[k])

\* C28: getMetricUnit reports found = true if and only if some segment of
\* the name is, in full, a key of the unit table with or without exactly one
\* prefix in front; a segment that only ends with a unit word is no match;
\* when nothing matches, the entry points raise no unit issue.
C28_ExactSegmentMatch ==
    /\ called = "getMetricUnit" => (found.ok <=> HasUnitSegment(opts.Name))
    /\ (called \in EntryPoints /\ ~HasUnitSegment(FQName))
          => UnitIssuesOf(result.Issues) = <<>>

\* "thermometers" ends with "meters" and is not found
C28_Witness ==
    /\ called = "getMetricUnit"
    /\ opts.Name = <<"t","h","e","r","m","o","m","e","t","e","r","s">>
    /\ ~found.ok

\* the issues on the style of the name: type word, ":", camelCase, abbreviation
StyleIssues ==
    {IssueType(w) : w \in KindWords}
        \cup {IssueReservedChars, IssueNameCamelCase, IssueAbbreviation}

\* the two "_total" suffix issues
TotalIssues == {IssueCounterTotal, IssueNonCounterTotal, IssueNonCounterTotalOfTests}

\* the issues commonLint raises on the help text and on the name
NameIssues ==
    {LintErrMsgNoHelp} \cup UnitIssues \cup StyleIssues
        \cup {IssueBucket, IssueCount, IssueSum}

\* the issues raised on a label name, constant or dynamic
LabelIssues == {IssueLe, IssueQuantile, IssueLabelCamelCase}

\* in the issue list every issue of the set first comes before every issue
\* of the set then
Precede(issues, first, then) ==
    \A i, j \in 1..Len(issues) :
        (issues[i] \in first /\ issues[j] \in then) => i < j

\* C29: in every result "no help text", when there, is the first entry; the
\* unit issue comes before the issues on the style of the name; the "_total"
\* suffix issue comes after every issue commonLint computed; and in a vector
\* result every issue raised for a dynamic label name comes after the
\* "_total" suffix issue.
C29_EvaluationOrder ==
    called \in EntryPoints =>
        /\ \A i \in 1..Len(result.Issues) :
              result.Issues[i] = LintErrMsgNoHelp => i = 1
        /\ Precede(result.Issues, UnitIssues, StyleIssues)
        /\ Precede(result.Issues, NameIssues, TotalIssues)
        /\ called \notin VectorCalls
              => Precede(result.Issues, LabelIssues, TotalIssues)
        /\ (called \in VectorCalls /\ DOMAIN opts.ConstLabels = {})
              => Precede(result.Issues, TotalIssues, LabelIssues)

\* a histogram vector reports on the help, the unit, the suffix and a
\* dynamic label name, in this order
C29_Witness ==
    /\ called = "LintHistogramVector"
    /\ DOMAIN opts.ConstLabels = {}
    /\ result.Issues = <<LintErrMsgNoHelp,
                         "use base unit \"seconds\" instead of \"hours\"",
                         IssueNonCounterTotal,
                         IssueLabelCamelCase>>

\* the tokens of the lowercased name that come after a "_"
PrecededTokens(name) ==
    LET ss == Split(ToLower(name), "_") IN {ss[i] : i \in 2..Len(ss)}

\* C30: where the abbreviation check and the type-leak check run (Histogram
\* and Summary), a name with k distinct abbreviations as tokens after a "_"
\* yields k `metric names should not contain abbreviated units` entries, and
\* a name with k distinct type words k `metric name should not include
\* type` entries, one for each word.
C30_OneEntryPerWord ==
    called \in HistogramCalls \cup SummaryCalls =>
        /\ Count(IssueAbbreviation)
              = Cardinality(PrecededTokens(FQName) \cap Abbreviations)
        /\ \A w \in KindWords :
              Count(IssueType(w)) = IF w \in PrecededTokens(FQName) THEN 1 ELSE 0

\* a histogram named "lint_s_ms" has the abbreviation issue twice
C30_Witness ==
    /\ called = "LintHistogram"
    /\ opts.Name = <<"l","i","n","t","_","s","_","m","s">>
    /\ Count(IssueAbbreviation) = 2

\* the unit map, the prefix list and the abbreviation list the code sees
Tables ==
    [units |-> pkgVars.units,
     unitPrefixes |-> Elems(pkgVars.unitPrefixes),
     unitAbbreviations |-> Elems(pkgVars.unitAbbreviations)]

\* C26: no call of an entry point changes the options, the list of dynamic
\* label names, the unit map, the prefix list or the abbreviation list; the
\* list getMetricUnit builds from the prefix list and the empty prefix adds
\* no entry to unitPrefixes.
C26_NoChange ==
    [][called' \in EntryPoints =>
          /\ opts' = opts
          /\ labelNames' = labelNames
          /\ Tables' = Tables
          /\ Len(Tables'.unitPrefixes) = Len(unitPrefixes)]_vars

\* after a vector entry point found a unit in the name, the prefix list is
\* as long as it was
C26_Witness ==
    /\ called = "LintSummaryVector"
    /\ UnitIssuesOf(result.Issues) # <<>>
    /\ Len(labelNames) > 0
    /\ Len(Elems(pkgVars.unitPrefixes)) = Len(unitPrefixes)

\* C25: under every interleaving of the steps of concurrent calls, on the
\* same options or on different ones, each call that returned has returned
\* a result the entry point can return for its arguments when it runs alone,
\* and no call has written the package variables the calls read.
C25_CallsDoNotInterfere ==
    /\ \A g \in Goroutines :
          calls[g].pc = "done" =>
             calls[g].result \in
                LintBy(calls[g].entry, calls[g].opts, calls[g].labelNames)
    /\ pkgVars = InitialPkgVars

\* a call on the shared options has returned a unit issue while another
\* entry point, called on the same options, was still running
C25_Witness ==
    /\ calls["g1"].pc = "done"
    /\ UnitIssuesOf(calls["g1"].result.Issues) # <<>>
    /\ calls["g2"].pc = "linted"
    /\ calls["g2"].opts = calls["g1"].opts
    /\ calls["g2"].entry # calls["g1"].entry

====
